---- MODULE Spec2Model ----
(***************************************************************************)
(* Model of games-data: the sliding-window RateLimiter (RateLimiter.js)    *)
(* and the Room (Room.js) with its clients and its variables.              *)
(*                                                                         *)
(* Date.now() is an input of the operations that read it: every reading    *)
(* is drawn from 0..MaxTime, so the clock may also go backward; properties *)
(* that assume a clock that never goes backward state it (ClockMonotonic). *)
(***************************************************************************)
EXTENDS Integers, Sequences, FiniteSets

\* ---- bounds of the exploration ----
MaxOps == 2        \* maxOperations is drawn from 0..MaxOps
MaxPeriod == 3     \* timePeriod is drawn from 1..MaxPeriod
MaxTime == 4       \* clock readings are drawn from 0..MaxTime
MaxCalls == 5      \* rateLimited() calls of one run
NumClients == 4    \* the clients offered to a room are 1..NumClients
NumNames == 11     \* valid variable names offered to create/set
MaxListLen == 3    \* longest list given to matchesVariableList

VARIABLES
  maxOperations,       \* RateLimiter.maxOperations
  timePeriod,          \* RateLimiter.timePeriod
  history,             \* RateLimiter.history: times of previous operations
  now,                 \* the latest reading of Date.now()
  calls,               \* log of the rateLimited() calls: [t, limited]
  clients,             \* Room.clients: connected clients, in order of arrival
  lastDisconnectTime,  \* Room.lastDisconnectTime
  variables,           \* Room.variables: Map from name to value
  result,              \* the latest Room call: [op, client, error]
  usernamesChecked     \* whether every addClient so far followed a negative
                       \* hasClientWithUsername(client.username)

limiterVars == <<maxOperations, timePeriod, history, calls>>
roomVars == <<clients, lastDisconnectTime, variables, result, usernamesChecked>>
vars == <<now, limiterVars, roomVars>>

\* ---------------------------------------------------------------------
\* RateLimiter
\* ---------------------------------------------------------------------

\* new RateLimiter(maxOperations, timePeriod)
LimiterInit ==
  /\ maxOperations \in 0..MaxOps
  /\ timePeriod \in 1..MaxPeriod
  /\ history = <<>>
  /\ calls = <<>>

\* this.history.length > this.maxOperations, after the push
\* (faulty variant: the capacity test off by one)
OverCapacity_OffByOne(h) == Len(h) > maxOperations + 1
OverCapacity(h) == Len(h) > maxOperations

\* timeSince < this.timePeriod, with period the shifted (front) element
\* (faulty variant: <= for <)
Violation_Inclusive(t, period) == (t - period) <= timePeriod
Violation(t, period) == (t - period) < timePeriod

\* the history left by one call: push(now), then shift() when over capacity
\* (faulty variants: the shift forgotten; a rejected attempt not recorded,
\* the pushed time taken back instead of the oldest)
HistoryAfter_NoShift(h) == h
HistoryAfter_KeepOnReject(h) ==
  IF OverCapacity(h)
  THEN IF Violation(h[Len(h)], Head(h)) THEN SubSeq(h, 1, Len(h) - 1) ELSE Tail(h)
  ELSE h
HistoryAfter(h) == IF OverCapacity(h) THEN Tail(h) ELSE h

\* the boolean rateLimited() returns, h being the history after the push
\* (faulty variant: the newest element taken for the oldest, pop for shift)
Limited_Pop(h, t) == IF OverCapacity(h) THEN Violation(t, h[Len(h)]) ELSE FALSE
Limited(h, t) == IF OverCapacity(h) THEN Violation(t, Head(h)) ELSE FALSE

\* rateLimited() with Date.now() = t
rateLimited(t) ==
  /\ Len(calls) < MaxCalls
  /\ now' = t
  /\ LET h == Append(history, t) IN
       /\ history' = HistoryAfter(h)
       /\ calls' = Append(calls, [t |-> t, limited |-> Limited(h, t)])
  /\ UNCHANGED <<maxOperations, timePeriod>>

LimiterNext == \E t \in 0..MaxTime : rateLimited(t)

\* ---------------------------------------------------------------------
\* Room: clients
\* ---------------------------------------------------------------------

\* The clients offered to the room: client c is a distinct object (reference)
\* whose username field reads UsernamePool[c]. A username is the sequence of
\* its characters.
UsernamePool ==
  << <<"a", "l", "i", "c", "e">>,
     <<"A", "l", "i", "c", "e">>,
     <<"b", "o", "b">>,
     <<"a", "l", "i", "c", "e">>,
     <<"B", "O", "B">>,
     <<"c", "a", "r", "o", "l">> >>
Clients == 1..NumClients
username(c) == UsernamePool[c]

\* String.prototype.toLowerCase, on the characters the usernames use
UpperCase == <<"A", "B", "C", "E", "I", "L", "O", "R">>
LowerCase == <<"a", "b", "c", "e", "i", "l", "o", "r">>
toLowerCaseChar(ch) ==
  IF \E k \in 1..Len(UpperCase) : UpperCase[k] = ch
  THEN LowerCase[CHOOSE k \in 1..Len(UpperCase) : UpperCase[k] = ch]
  ELSE ch
\* (faulty variant: the string returned as it is)
toLowerCase_Identity(str) == str
toLowerCase(str) == [k \in 1..Len(str) |-> toLowerCaseChar(str[k])]

\* what the Room operations throw (Ok: the call returned normally)
Ok == "ok"
AlreadyMember == "Client is already added to this Room."
NotMember == "Client does not belong to this Room"
InvalidName == "Invalid variable name"
InvalidValue == "Invalid value"
AlreadyExists == "Variable already exists"
Capacity == "Too many variables"
NotFound == "Variable does not exist"

\* A call as result keeps it: the operation, the client it was given (NoClient
\* when it takes none) and what it threw. The name and value given to create
\* and set are not kept: the properties of create and set quantify over them.
NoClient == "none"
NoString == "-"
ClientCall(op, c, err) == [op |-> op, client |-> c, error |-> err]
VariableCall(op, err) == [op |-> op, client |-> NoClient, error |-> err]

\* new Room(id)
RoomInit ==
  /\ variables = [n \in {} |-> NoString]
  /\ clients = << >>
  /\ lastDisconnectTime = -1
  /\ result = ClientCall("new", NoClient, Ok)
  /\ usernamesChecked = TRUE

\* this.clients.includes(client)
\* (faulty variant: the membership test always negative)
includes_Never(c) == FALSE
includes(c) == \E k \in 1..Len(clients) : clients[k] = c

\* this.clients.indexOf(client), 1-based; 0 when absent (-1 in the source)
indexOf(c) ==
  IF includes(c)
  THEN CHOOSE k \in 1..Len(clients) :
         clients[k] = c /\ \A j \in 1..(k - 1) : clients[j] # c
  ELSE 0

\* this.clients.splice(index, 1)
\* (faulty variant: the last element removed, pop for splice)
splice_Pop(index) == SubSeq(clients, 1, Len(clients) - 1)
splice(index) ==
  [k \in 1..(Len(clients) - 1) |->
     IF k < index THEN clients[k] ELSE clients[k + 1]]

\* hasClientWithUsername(username)
\* (faulty variant: the comparison without toLowerCase)
hasClientWithUsername_CaseSensitive(name) ==
  \E k \in 1..Len(clients) : username(clients[k]) = name
hasClientWithUsername(name) ==
  LET lowered == toLowerCase(name) IN
    \E k \in 1..Len(clients) : toLowerCase(username(clients[k])) = lowered

\* addClient(client)
addClient(c) ==
  /\ IF includes(c)
     THEN /\ result' = ClientCall("addClient", c, AlreadyMember)
          /\ UNCHANGED clients
     ELSE /\ clients' = Append(clients, c)
          /\ result' = ClientCall("addClient", c, Ok)
  /\ UNCHANGED <<lastDisconnectTime, variables, now>>

\* removeClient(client) with Date.now() = t
\* (faulty variants: lastDisconnectTime not written; lastDisconnectTime
\* written before the membership test)
removeClient_NoTime(c, t) ==
  /\ LET index == indexOf(c) IN
       IF index = 0
       THEN /\ result' = ClientCall("removeClient", c, NotMember)
            /\ UNCHANGED <<clients, lastDisconnectTime, now>>
       ELSE /\ clients' = splice(index)
            /\ now' = t
            /\ result' = ClientCall("removeClient", c, Ok)
            /\ UNCHANGED lastDisconnectTime
  /\ UNCHANGED variables
removeClient_TimeFirst(c, t) ==
  /\ lastDisconnectTime' = t
  /\ now' = t
  /\ LET index == indexOf(c) IN
       IF index = 0
       THEN /\ result' = ClientCall("removeClient", c, NotMember)
            /\ UNCHANGED clients
       ELSE /\ clients' = splice(index)
            /\ result' = ClientCall("removeClient", c, Ok)
  /\ UNCHANGED variables
removeClient(c, t) ==
  /\ LET index == indexOf(c) IN
       IF index = 0
       THEN /\ result' = ClientCall("removeClient", c, NotMember)
            /\ UNCHANGED <<clients, lastDisconnectTime, now>>
       ELSE /\ clients' = splice(index)
            /\ lastDisconnectTime' = t
            /\ now' = t
            /\ result' = ClientCall("removeClient", c, Ok)
  /\ UNCHANGED variables

\* The caller of addClient: it may or may not have asked
\* hasClientWithUsername(client.username) first; usernamesChecked records
\* whether every client added so far was added after a negative answer.
CallAddClient(c) ==
  /\ addClient(c)
  /\ usernamesChecked' =
       (usernamesChecked /\ (includes(c) \/ ~hasClientWithUsername(username(c))))

CallRemoveClient(c, t) ==
  /\ removeClient(c, t)
  /\ UNCHANGED usernamesChecked

ClientsNext ==
  \/ \E c \in Clients : CallAddClient(c)
  \/ \E c \in Clients, t \in 0..MaxTime : CallRemoveClient(c, t)

\* ---------------------------------------------------------------------
\* Room: variables
\* ---------------------------------------------------------------------

\* this.maxVariables
maxVariables == 10

\* The names and values offered to create/set. validators.js is outside the
\* sources at hand: isValidVariableName and isValidVariableValue are modelled
\* as the pure, fixed predicates the specification says they are, accepting
\* ValidNames and ValidValues and rejecting the rest.
NamePool == <<"x", "X", "y", "Y", "a", "b", "c", "d", "e", "f", "g", "h", "i">>
ValidNames == {NamePool[k] : k \in 1..NumNames}
InvalidNames == {"bad name"}
Names == ValidNames \cup InvalidNames
RewritableNames == {"x", "X"}
ValidValues == {"0", "1"}
InvalidValues == {"bad value"}
Values == ValidValues \cup InvalidValues
isValidVariableName(name) == name \in ValidNames
isValidVariableValue(value) == value \in ValidValues

\* the (name, value) arguments explored: every valid name with the first
\* valid value, the rewritable names and the invalid name with every value
Requests ==
  (ValidNames \X {"0"}) \cup ((RewritableNames \cup InvalidNames) \X Values)

\* has(name): this.variables.has(name)
has(name) == name \in DOMAIN variables

\* this.variables.size
size == Cardinality(DOMAIN variables)

\* this.variables.set(name, value)
\* (faulty variant: a new map that holds the one pair)
mapSet_Fresh(name, value) == [n \in {name} |-> value]
mapSet(name, value) ==
  [n \in DOMAIN variables \cup {name} |->
     IF n = name THEN value ELSE variables[n]]

\* the checks of create(name, value), in the order of the source
\* (faulty variants: the capacity test before the existence test, the
\* capacity test missing, the value test missing)
createError_CapacityFirst(name, value) ==
  IF ~isValidVariableName(name) THEN InvalidName
  ELSE IF ~isValidVariableValue(value) THEN InvalidValue
  ELSE IF size >= maxVariables THEN Capacity
  ELSE IF has(name) THEN AlreadyExists
  ELSE Ok
createError_NoCapacity(name, value) ==
  IF ~isValidVariableName(name) THEN InvalidName
  ELSE IF ~isValidVariableValue(value) THEN InvalidValue
  ELSE IF has(name) THEN AlreadyExists
  ELSE Ok
createError_NoValueCheck(name, value) ==
  IF ~isValidVariableName(name) THEN InvalidName
  ELSE IF has(name) THEN AlreadyExists
  ELSE IF size >= maxVariables THEN Capacity
  ELSE Ok
createError(name, value) ==
  IF ~isValidVariableName(name) THEN InvalidName
  ELSE IF ~isValidVariableValue(value) THEN InvalidValue
  ELSE IF has(name) THEN AlreadyExists
  ELSE IF size >= maxVariables THEN Capacity
  ELSE Ok

\* the checks of set(name, value), in the order of the source
\* (faulty variant: the existence test before the validators)
setError_NotFoundFirst(name, value) ==
  IF ~has(name) THEN NotFound
  ELSE IF ~isValidVariableName(name) THEN InvalidName
  ELSE IF ~isValidVariableValue(value) THEN InvalidValue
  ELSE Ok
setError(name, value) ==
  IF ~isValidVariableName(name) THEN InvalidName
  ELSE IF ~isValidVariableValue(value) THEN InvalidValue
  ELSE IF ~has(name) THEN NotFound
  ELSE Ok

\* create(name, value)
create(name, value) ==
  /\ LET err == createError(name, value) IN
       /\ result' = VariableCall("create", err)
       /\ IF err = Ok
          THEN variables' = mapSet(name, value)
          ELSE UNCHANGED variables
  /\ UNCHANGED <<clients, lastDisconnectTime, now>>

\* set(name, value)
set(name, value) ==
  /\ LET err == setError(name, value) IN
       /\ result' = VariableCall("set", err)
       /\ IF err = Ok
          THEN variables' = mapSet(name, value)
          ELSE UNCHANGED variables
  /\ UNCHANGED <<clients, lastDisconnectTime, now>>

\* matchesVariableList(variables), list being the argument
\* (faulty variants: the length test missing; the elements of the list looked
\* up in the map instead of the names of the map in the list)
matchesVariableList_NoLength(list) ==
  \A variableName \in DOMAIN variables :
    \E k \in 1..Len(list) : list[k] = variableName
matchesVariableList_ListInMap(list) ==
  IF Len(list) # size
  THEN FALSE
  ELSE \A k \in 1..Len(list) : list[k] \in DOMAIN variables
matchesVariableList(list) ==
  IF Len(list) # size
  THEN FALSE
  ELSE \A variableName \in DOMAIN variables :
         \E k \in 1..Len(list) : list[k] = variableName

VariablesNext ==
  \/ \E r \in Requests : create(r[1], r[2])
  \/ \E r \in Requests : set(r[1], r[2])

\* The calls of a room whose clients and variables both change: one client
\* comes and goes, every valid name is created or set with the first valid
\* value, and an invalid name and an invalid value are tried.
RoomClients == {1}
RoomRequests ==
  (ValidNames \X {"0"}) \cup (InvalidNames \X {"0"}) \cup ({"x"} \X InvalidValues)

RoomNext ==
  \/ \E c \in RoomClients : CallAddClient(c)
  \/ \E c \in RoomClients, t \in 0..MaxTime : CallRemoveClient(c, t)
  \/ \E r \in RoomRequests : create(r[1], r[2]) /\ UNCHANGED usernamesChecked
  \/ \E r \in RoomRequests : set(r[1], r[2]) /\ UNCHANGED usernamesChecked

\* ---------------------------------------------------------------------
\* Specifications
\* ---------------------------------------------------------------------

Init == LimiterInit /\ RoomInit /\ now = 0

\* one limiter, called at any times
SpecLimiter ==
  Init /\ [][LimiterNext /\ UNCHANGED roomVars]_vars

\* one room, its clients added and removed in any order
SpecClients ==
  Init /\ maxOperations = 1 /\ timePeriod = 1
       /\ [][ClientsNext /\ UNCHANGED limiterVars]_vars

\* one room, its variables created and set in any order
SpecVariables ==
  Init /\ maxOperations = 1 /\ timePeriod = 1
       /\ [][VariablesNext /\ UNCHANGED <<limiterVars, usernamesChecked>>]_vars

\* one room, its clients and its variables changed in any order
SpecRoom ==
  Init /\ maxOperations = 1 /\ timePeriod = 1
       /\ [][RoomNext /\ UNCHANGED limiterVars]_vars

\* ---------------------------------------------------------------------
\* Properties of the RateLimiter (checked under SpecLimiter)
\* ---------------------------------------------------------------------

\* every clock reading of the run is >= the one before it
ClockMonotonic == \A i \in 1..(Len(calls) - 1) : calls[i].t <= calls[i + 1].t

NotLimited(c) == ~c.limited
\* the calls that returned false (allowed), in call order
AllowedCalls == SelectSeq(calls, NotLimited)

IsSorted(s) == \A i \in 1..(Len(s) - 1) : s[i] <= s[i + 1]

\* C1: with maxOperations = N >= 1 and a clock that never goes backward, the
\* k-th and the (k+N)-th allowed calls are at least timePeriod apart, i.e. no
\* rolling window of duration timePeriod holds more than N allowed calls.
C1_RollingWindow ==
  (maxOperations >= 1 /\ ClockMonotonic) =>
    \A k \in 1..(Len(AllowedCalls) - maxOperations) :
      AllowedCalls[k + maxOperations].t - AllowedCalls[k].t >= timePeriod

\* a run with a rejected call and with more than N allowed calls
C1_Witness ==
  /\ maxOperations >= 1
  /\ ClockMonotonic
  /\ Len(AllowedCalls) > maxOperations
  /\ \E i \in 1..Len(calls) : calls[i].limited

\* C2: on a fresh limiter with N >= 1 the first N calls return false whatever
\* their timing, and the (N+1)-th call returns true iff it comes less than
\* timePeriod after the 1st call (false when timePeriod or more after it).
C2_FirstWindow ==
  maxOperations >= 1 =>
    /\ \A i \in 1..Len(calls) : i <= maxOperations => ~calls[i].limited
    /\ Len(calls) > maxOperations =>
         /\ (calls[maxOperations + 1].t - calls[1].t < timePeriod
               => calls[maxOperations + 1].limited)
         /\ (calls[maxOperations + 1].t - calls[1].t >= timePeriod
               => ~calls[maxOperations + 1].limited)

\* N calls at one instant, all allowed, and the (N+1)-th rejected
C2_Witness ==
  /\ maxOperations >= 1
  /\ Len(calls) > maxOperations
  /\ \A i \in 1..maxOperations : calls[i].t = calls[1].t /\ ~calls[i].limited
  /\ calls[maxOperations + 1].limited

\* C3: no permanent lockout. After a call that returned limited, a next call
\* made once the oldest of the last N recorded timestamps (the one recorded N
\* calls before it) is at least timePeriod old returns false.
C3_NoPermanentLockout ==
  maxOperations >= 1 =>
    \A i \in 1..(Len(calls) - 1) :
      (/\ calls[i].limited
       /\ i >= maxOperations
       /\ calls[i + 1].t - calls[i + 1 - maxOperations].t >= timePeriod)
        => ~calls[i + 1].limited

\* a rejected call followed, after the wait, by an allowed one
C3_Witness ==
  /\ maxOperations >= 1
  /\ \E i \in 1..(Len(calls) - 1) :
       /\ calls[i].limited
       /\ i >= maxOperations
       /\ calls[i + 1].t - calls[i + 1 - maxOperations].t >= timePeriod
       /\ ~calls[i + 1].limited

\* C4: after every completed call history.length <= maxOperations (also for
\* maxOperations = 0), and with a clock that never goes backward the history
\* is in non-decreasing order.
C4_HistoryBounded ==
  /\ Len(history) <= maxOperations
  /\ ClockMonotonic => IsSorted(history)

\* a full history after more calls than it can hold, with distinct times
C4_Witness ==
  /\ Len(calls) > maxOperations
  /\ Len(history) = maxOperations
  /\ maxOperations >= 2
  /\ ClockMonotonic
  /\ history[1] < history[2]

\* the smaller of two numbers
Min(a, b) == IF a <= b THEN a ELSE b

\* the times of the last n calls, oldest first
LastCallTimes(n) ==
  [k \in 1..n |-> calls[Len(calls) - n + k].t]

\* C15: every call records its time, rejected or not: after k calls history
\* holds exactly the times of the last min(k, N) calls, and the k-th call
\* (k > N) returns true iff t_k - t_(k-N) < timePeriod, t ranging over all
\* calls. E.g. with N = 2 a 3rd call less than timePeriod after the 1st is
\* rejected and a 4th call timePeriod or more after the 2nd is allowed.
C15_AllAttemptsRecorded ==
  /\ history = LastCallTimes(Min(Len(calls), maxOperations))
  /\ \A k \in 1..Len(calls) :
       k > maxOperations =>
         (calls[k].limited <=>
            calls[k].t - calls[k - maxOperations].t < timePeriod)

\* the run false, false, true, false of a limiter of 2 operations per period
\* of 3: calls at 0, 1, 2 (less than 3 after the 1st) and 4 (3 after the 2nd)
C15_Witness ==
  /\ maxOperations = 2
  /\ timePeriod = 3
  /\ calls = << [t |-> 0, limited |-> FALSE], [t |-> 1, limited |-> FALSE],
                [t |-> 2, limited |-> TRUE], [t |-> 4, limited |-> FALSE] >>
  /\ history = <<2, 4>>

\* every call after the first N comes less than timePeriod after the call
\* made N calls before it
AttemptsKeepComing ==
  \A k \in 1..Len(calls) :
    k > maxOperations => calls[k].t - calls[k - maxOperations].t < timePeriod

\* C17: a caller whose every call comes less than timePeriod after the call
\* made maxOperations calls earlier is reported limited on every call after
\* the first maxOperations, even when no allowed call lies within the trailing
\* timePeriod; a call after the first maxOperations is reported not limited
\* only when it comes timePeriod or more after the call made maxOperations
\* calls earlier.
C17_RejectedAttemptsExtendLockout ==
  /\ AttemptsKeepComing =>
       \A k \in 1..Len(calls) : k > maxOperations => calls[k].limited
  /\ \A k \in 1..Len(calls) :
       (k > maxOperations /\ ~calls[k].limited) =>
         calls[k].t - calls[k - maxOperations].t >= timePeriod

\* the latest call is rejected although every allowed call of the run is
\* timePeriod or more old, the clock never having gone backward
C17_Witness ==
  /\ maxOperations >= 1
  /\ ClockMonotonic
  /\ AttemptsKeepComing
  /\ Len(calls) > maxOperations + 1
  /\ calls[Len(calls)].limited
  /\ \A k \in 1..Len(calls) :
       ~calls[k].limited => calls[Len(calls)].t - calls[k].t >= timePeriod

\* C18: with maxOperations = 0 every call, the first included, returns true
\* and the history is empty after every call.
C18_ZeroOperations ==
  maxOperations = 0 =>
    /\ \A k \in 1..Len(calls) : calls[k].limited
    /\ history = << >>

\* a limiter of 0 operations after several calls at different times
C18_Witness ==
  /\ maxOperations = 0
  /\ Len(calls) >= 3
  /\ calls[1].t # calls[3].t

\* ---------------------------------------------------------------------
\* Properties of the Room's clients (checked under SpecClients)
\* ---------------------------------------------------------------------

\* no two positions of clients hold clients whose usernames are equal
\* ignoring case
UniqueUsernames ==
  \A j, k \in 1..Len(clients) :
    (j # k /\ clients[j] # clients[k]) =>
      toLowerCase(username(clients[j])) # toLowerCase(username(clients[k]))

\* C5 (as stated): in every state reachable by addClient/removeClient calls,
\* two distinct connected clients never report the same username under
\* case-insensitive comparison.
C5_UniqueUsernames_Original == UniqueUsernames

\* C5 (amended): as long as every addClient(c) was made after
\* hasClientWithUsername(c.username) answered false, two distinct connected
\* clients never have the same username under case-insensitive comparison.
C5_UniqueUsernamesWhenChecked == usernamesChecked => UniqueUsernames

\* checked adds only, two clients connected, and a third one whose username
\* differs from a connected one by case only is in use
C5_Witness ==
  /\ usernamesChecked
  /\ Len(clients) >= 2
  /\ \E c \in Clients :
       /\ ~includes(c)
       /\ hasClientWithUsername(username(c))
       /\ ~hasClientWithUsername_CaseSensitive(username(c))

\* C6: clients never holds the same client reference twice, whatever
\* addClient/removeClient calls (successful or failing) were made.
C6_NoDuplicateClient ==
  \A j, k \in 1..Len(clients) : j # k => clients[j] # clients[k]

\* an addClient of a connected client has just failed, others being connected
C6_Witness ==
  /\ result.op = "addClient"
  /\ result.error = AlreadyMember
  /\ includes(result.client)
  /\ Len(clients) >= 2

\* the clients connected
Connected == {clients[k] : k \in 1..Len(clients)}

\* C11: addClient(c) fails with AlreadyMember exactly when c is in clients and
\* otherwise appends c; removeClient(c) fails with NotMember exactly when c is
\* not in clients (never added, or already removed) and otherwise removes c
\* and only c, the others keeping their order. A removed client can be added
\* again.
C11_MembershipErrors ==
  [][LET c == result'.client IN
       /\ result'.op = "addClient" =>
            /\ (result'.error = AlreadyMember) <=> (c \in Connected)
            /\ c \in Connected => clients' = clients
            /\ c \notin Connected =>
                 (result'.error = Ok /\ clients' = Append(clients, c))
       /\ result'.op = "removeClient" =>
            /\ (result'.error = NotMember) <=> (c \notin Connected)
            /\ c \notin Connected => clients' = clients
            /\ c \in Connected =>
                 /\ result'.error = Ok
                 /\ clients' = SelectSeq(clients, LAMBDA d : d # c)]_vars

\* every client offered is connected after a successful removal: the client
\* removed has been added again
C11_Witness ==
  /\ lastDisconnectTime # -1
  /\ Connected = Clients
  /\ result.op = "addClient"
  /\ result.error = Ok

\* two characters are the same letter: equal, or the upper and the lower case
\* of one letter
SameLetter(a, b) ==
  \/ a = b
  \/ \E k \in 1..Len(UpperCase) : {a, b} = {UpperCase[k], LowerCase[k]}

\* two usernames are equal ignoring case
EqualIgnoringCase(s1, s2) ==
  /\ Len(s1) = Len(s2)
  /\ \A k \in 1..Len(s1) : SameLetter(s1[k], s2[k])

\* the usernames asked for: those of every client of the pool, connected or not
QueriedUsernames == {UsernamePool[k] : k \in 1..Len(UsernamePool)}

\* C13: hasClientWithUsername(name) is true iff some connected client has a
\* username equal to name ignoring case; it is false again once every such
\* client has been removed.
C13_HasClientWithUsername ==
  \A name \in QueriedUsernames :
    hasClientWithUsername(name) <=>
      \E c \in Connected : EqualIgnoringCase(username(c), name)

\* only "alice" is connected, after a removal: "Alice" is in use, "bob" is not
C13_Witness ==
  /\ lastDisconnectTime # -1
  /\ clients = <<1>>
  /\ hasClientWithUsername(<<"A", "l", "i", "c", "e">>)
  /\ ~hasClientWithUsername(<<"b", "o", "b">>)

\* ---------------------------------------------------------------------
\* Properties of the whole Room (checked under SpecRoom)
\* ---------------------------------------------------------------------

\* the step is a removeClient that returned normally
RemovedClient == result'.op = "removeClient" /\ result'.error = Ok

\* C12: lastDisconnectTime is the time of the latest successful removal: it is
\* -1 at first, each successful removeClient sets it to the clock reading of
\* that call (>= the reading before it when the clock does not go backward),
\* no other call (addClient, a failing removeClient, create, set) changes it,
\* and it never decreases over a step whose clock reading does not go backward.
C12_LastDisconnectTime ==
  /\ lastDisconnectTime = -1
  /\ [][/\ RemovedClient => lastDisconnectTime' = now'
        /\ (RemovedClient /\ now' >= now) => lastDisconnectTime' >= now
        /\ ~RemovedClient => lastDisconnectTime' = lastDisconnectTime
        /\ now' >= now => lastDisconnectTime' >= lastDisconnectTime]_vars

\* a removeClient has just failed after an earlier successful one, in a room
\* that holds variables and a client
C12_Witness ==
  /\ result.op = "removeClient"
  /\ result.error = NotMember
  /\ lastDisconnectTime > 0
  /\ size >= 1

C19_NamesOnlyGrow ==
  [][/\ DOMAIN variables \subseteq DOMAIN variables'
     /\ size = maxVariables =>
          /\ Cardinality(DOMAIN variables') = maxVariables
          /\ result'.op = "create" => result'.error # Ok
          /\ \A r \in RoomRequests :
               (/\ result'.op = "set"
                /\ set(r[1], r[2])
                /\ r[1] \in DOMAIN variables
                /\ isValidVariableValue(r[2])) => result'.error = Ok]_vars

\* a set has just succeeded in a full room whose client came and went
C19_Witness ==
  /\ size = maxVariables
  /\ result.op = "set"
  /\ result.error = Ok
  /\ lastDisconnectTime # -1

\* ---------------------------------------------------------------------
\* Properties of the Room's variables (checked under SpecVariables)
\* ---------------------------------------------------------------------

\* C7: whatever create/set calls were made (successful or failing),
\* variables.size <= maxVariables.
C7_SizeBounded == size <= maxVariables

\* a full room in which one more create has just failed with Capacity
C7_Witness ==
  /\ size = maxVariables
  /\ result.op = "create"
  /\ result.error = Capacity

\* C8: every stored name satisfies isValidVariableName and every stored value
\* satisfies isValidVariableValue: create and set never write a name or a
\* value the validators reject.
C8_StoredAreValid ==
  \A n \in DOMAIN variables :
    isValidVariableName(n) /\ isValidVariableValue(variables[n])

\* a call has just been refused for its value, in a room that holds variables
\* written by create and by set
C8_Witness ==
  /\ result.error = InvalidValue
  /\ size >= 2
  /\ \E n \in DOMAIN variables : variables[n] = "1"

\* the first applicable error of create in the order the claim gives:
\* InvalidName, InvalidValue, AlreadyExists, Capacity
C9_FirstError(n, v) ==
  IF ~isValidVariableName(n) THEN InvalidName
  ELSE IF ~isValidVariableValue(v) THEN InvalidValue
  ELSE IF n \in DOMAIN variables THEN AlreadyExists
  ELSE IF Cardinality(DOMAIN variables) >= maxVariables THEN Capacity
  ELSE Ok

\* C9: create(name, value) fails with the first applicable error in the order
\* InvalidName, InvalidValue, AlreadyExists, Capacity (an existing name in a
\* full room reports AlreadyExists, not Capacity); when none applies it
\* succeeds, and afterwards has(name) is true and the map gives name the value.
C9_CreateErrorOrder ==
  [][\A r \in Requests :
       (result'.op = "create" /\ create(r[1], r[2])) =>
         /\ result'.error = C9_FirstError(r[1], r[2])
         /\ C9_FirstError(r[1], r[2]) = Ok =>
              (r[1] \in DOMAIN variables' /\ variables'[r[1]] = r[2])]_vars

\* a create of an existing name has just failed with AlreadyExists in a full room
C9_Witness ==
  /\ result.op = "create"
  /\ result.error = AlreadyExists
  /\ size = maxVariables

\* the first applicable error of set in the order the claim gives:
\* InvalidName, InvalidValue, NotFound
C10_FirstError(n, v) ==
  IF ~isValidVariableName(n) THEN InvalidName
  ELSE IF ~isValidVariableValue(v) THEN InvalidValue
  ELSE IF n \notin DOMAIN variables THEN NotFound
  ELSE Ok

\* C10: set(name, value) fails with InvalidName, then InvalidValue, then
\* NotFound, in that order of precedence; otherwise it succeeds, the map gives
\* name the value, and the set of names and every other value are unchanged.
C10_SetErrorOrderAndEffect ==
  [][\A r \in Requests :
       (result'.op = "set" /\ set(r[1], r[2])) =>
         /\ result'.error = C10_FirstError(r[1], r[2])
         /\ C10_FirstError(r[1], r[2]) = Ok =>
              /\ variables'[r[1]] = r[2]
              /\ DOMAIN variables' = DOMAIN variables
              /\ \A n \in DOMAIN variables \ {r[1]} :
                   variables'[n] = variables[n]]_vars

\* a set has just succeeded on one of several variables, two of them holding
\* different values
C10_Witness ==
  /\ result.op = "set"
  /\ result.error = Ok
  /\ size >= 2
  /\ \E n, m \in DOMAIN variables : variables[n] # variables[m]

\* the lists given to matchesVariableList: every list of at most MaxListLen
\* names among "x", "X" and "y"
ListNames == {"x", "X", "y"}
Lists == UNION {[1..len -> ListNames] : len \in 0..MaxListLen}
Elements(list) == {list[k] : k \in 1..Len(list)}
HasDuplicate(list) ==
  \E j, k \in 1..Len(list) : j # k /\ list[j] = list[k]

\* C14: for a duplicate-free list, matchesVariableList is true iff the set of
\* its elements is exactly the set of stored names (case-sensitive), whatever
\* their order; false for a strict subset and for a strict superset.
C14_MatchesVariableList ==
  \A list \in Lists :
    ~HasDuplicate(list) =>
      (matchesVariableList(list) <=> Elements(list) = DOMAIN variables)

\* the room holds x and y: both orders match; a subset, a superset and a list
\* differing by case do not
C14_Witness ==
  /\ DOMAIN variables = {"x", "y"}
  /\ matchesVariableList(<<"x", "y">>)
  /\ matchesVariableList(<<"y", "x">>)
  /\ ~matchesVariableList(<<"x">>)
  /\ ~matchesVariableList(<<"x", "y", "X">>)
  /\ ~matchesVariableList(<<"X", "y">>)

\* C20: for a list that contains a duplicate element matchesVariableList is
\* false in every reachable state.
C20_DuplicateNeverMatches ==
  \A list \in Lists : HasDuplicate(list) => ~matchesVariableList(list)

\* the room holds x and y, and the list x, x, as long as the map and made of
\* stored names only, does not match
C20_Witness ==
  /\ DOMAIN variables = {"x", "y"}
  /\ ~matchesVariableList(<<"x", "x">>)
  /\ ~matchesVariableList(<<"x", "y", "x">>)

====
